---------------------------- MODULE Spec2Model ----------------------------
(***************************************************************************)
(* A model of clatd's config.c: the typed configuration item readers, the  *)
(* PLAT prefix resolution with its DNS64 back-off loop, the synthesis of   *)
(* the local IPv6 address, and read_config, which assembles the            *)
(* process-wide Global_Clatd_Config.                                       *)
(*                                                                         *)
(* Conventions.  A C pointer that may be NULL is a sequence of length at   *)
(* most one: << >> is NULL and <<v>> points to v.  An address is the tuple *)
(* of its bytes, so s6_addr[i] of the source is a[i + 1] here.  The text   *)
(* handed to strtol is a sequence of one-character strings; every other    *)
(* text is a string.                                                       *)
(***************************************************************************)
EXTENDS Integers, Sequences, FiniteSets, TLC

(***************************************************************************)
(* Bounds of the model.                                                    *)
(***************************************************************************)
\* how many sleeps of one dns64_detection run are recorded (the loop itself
\* is not bounded: only the recording stops)
MaxSleeps == 9
\* longest text drawn from Alphabet for config_item_int16_t
MaxLen == 3

(***************************************************************************)
(* Program constants.                                                      *)
(***************************************************************************)
INT16_MAX == 32767
INT16_MIN == -32768
\* "long int conf_int": the ILP32 build, whose long is 32 bits wide (with a
\* 64-bit long the texts beyond it fail the INT16 test instead of errno's)
LONG_MAX == 2147483647
\* the errno strtol sets when the value does not fit a long
ERANGE == 34
\* the cap of the back-off timer
BackoffCap == 120
\* sizeof(Global_Clatd_Config.default_pdp_interface)
IFNAMSIZ == 16

NULL == << >>
Ptr(v) == <<v>>
Deref(p) == p[1]

(***************************************************************************)
(* Checksum engine (checksum.c), after the design's description of it: the *)
(* ones'-complement sum of 16-bit words in network order, a trailing byte  *)
(* being the high byte of a zero-padded word; the sum folded to 16 bits    *)
(* before it is combined.                                                  *)
(***************************************************************************)
RECURSIVE ip_checksum_add(_, _)
ip_checksum_add(current, data) ==
  IF Len(data) = 0 THEN current
  ELSE IF Len(data) = 1 THEN current + data[1] * 256
  ELSE ip_checksum_add(current + data[1] * 256 + data[2],
                       SubSeq(data, 3, Len(data)))

RECURSIVE ip_checksum_fold(_)
ip_checksum_fold(temp_sum) ==
  IF temp_sum > 65535
    THEN ip_checksum_fold((temp_sum \div 65536) + (temp_sum % 65536))
    ELSE temp_sum

\* ~x on a uint16_t
Not16(x) == 65535 - x

\* RFC 1624, eqn. 3: HC' = ~(~HC + ~m + m'), with the end-around borrow
ip_checksum_adjust(checksum, old_hdr_sum, new_hdr_sum) ==
  LET folded_sum == ip_checksum_fold(Not16(checksum) + new_hdr_sum)
      folded_old == ip_checksum_fold(old_hdr_sum)
  IN  IF folded_sum > folded_old
        THEN Not16(folded_sum - folded_old)
        ELSE Not16((folded_sum - folded_old - 1) % 65536)

(***************************************************************************)
(* strtol(nptr, &endptr, 10).  The result is [val, endptr, errno], endptr  *)
(* being the index in nptr of the first character that was not consumed    *)
(* (Len(nptr) + 1 is the terminating NUL) and errno being 0 or ERANGE.     *)
(***************************************************************************)
Digits == <<"0", "1", "2", "3", "4", "5", "6", "7", "8", "9">>
IsDigit(c) == \E d \in 1 .. 10 : Digits[d] = c
DigitVal(c) == (CHOOSE d \in 1 .. 10 : Digits[d] = c) - 1
\* isspace (the vertical tab, which has no notation here, left out)
IsSpace(c) == c \in {" ", "\t", "\n", "\f", "\r"}

RECURSIVE SkipSpace(_, _)
SkipSpace(s, i) ==
  IF i <= Len(s) /\ IsSpace(s[i]) THEN SkipSpace(s, i + 1) ELSE i

\* accumulate the digits from index i on, as the libc does: towards LONG_MAX
\* for a positive number, towards LONG_MIN for a negative one; over is set
\* once the value leaves the range of long, and all digits are consumed
RECURSIVE StrtolDigits(_, _, _, _, _)
StrtolDigits(s, i, neg, acc, over) ==
  IF i <= Len(s) /\ IsDigit(s[i])
    THEN LET d == DigitVal(s[i])
             cutoff == LONG_MAX \div 10
             cutlim == IF neg THEN (LONG_MAX % 10) + 1 ELSE LONG_MAX % 10
             mag == IF neg THEN -acc ELSE acc
             o == over \/ mag > cutoff \/ (mag = cutoff /\ d > cutlim)
             next == IF o THEN 0 ELSE IF neg THEN acc * 10 - d ELSE acc * 10 + d
         IN  StrtolDigits(s, i + 1, neg, next, o)
    ELSE [acc |-> acc, over |-> over, end |-> i]

strtol(nptr) ==
  LET b == SkipSpace(nptr, 1)
      neg == b <= Len(nptr) /\ nptr[b] = "-"
      signed == b <= Len(nptr) /\ nptr[b] \in {"-", "+"}
      first == IF signed THEN b + 1 ELSE b
      any == first <= Len(nptr) /\ IsDigit(nptr[first])
      r == StrtolDigits(nptr, first, neg, 0, FALSE)
  IN  IF ~any THEN [val |-> 0, endptr |-> 1, errno |-> 0]
      ELSE IF r.over
             THEN [val |-> IF neg THEN -LONG_MAX - 1 ELSE LONG_MAX,
                   endptr |-> r.end, errno |-> ERANGE]
             ELSE [val |-> r.acc, endptr |-> r.end, errno |-> 0]


(***************************************************************************)
(* inet_pton(af, src, dst) of the libc, on the address texts the model     *)
(* draws its inputs from: [status, addr].  A text that is no address       *)
(* yields status 0 and writes nothing.                                     *)
(***************************************************************************)
AF_INET == 2
AF_INET6 == 10

Zero4 == <<0, 0, 0, 0>>
Zero16 == <<0, 0, 0, 0, 0, 0, 0, 0, 0, 0, 0, 0, 0, 0, 0, 0>>

inet_pton(af, src) ==
  IF af = AF_INET
    THEN CASE src = "192.0.0.4" -> [status |-> 1, addr |-> <<192, 0, 0, 4>>]
           [] src = "10.255.1.2" -> [status |-> 1, addr |-> <<10, 255, 1, 2>>]
           [] OTHER -> [status |-> 0, addr |-> Zero4]
    ELSE CASE src = "::" -> [status |-> 1, addr |-> Zero16]
           [] src = "64:ff9b::" ->
                [status |-> 1,
                 addr |-> <<0, 100, 255, 155, 0, 0, 0, 0, 0, 0, 0, 0, 0, 0, 0, 0>>]
           [] src = "2001:db8:64::" ->
                [status |-> 1,
                 addr |-> <<32, 1, 13, 184, 0, 100, 0, 0, 0, 0, 0, 0, 0, 0, 0, 0>>]
           [] src = "2001:db8::1234:5678" ->
                [status |-> 1,
                 addr |-> <<32, 1, 13, 184, 0, 0, 0, 0, 0, 0, 0, 0, 18, 52, 86, 120>>]
           [] src = "2001:db8::" ->
                [status |-> 1,
                 addr |-> <<32, 1, 13, 184, 0, 0, 0, 0, 0, 0, 0, 0, 0, 0, 0, 0>>]
           [] OTHER -> [status |-> 0, addr |-> Zero16]

(***************************************************************************)
(* The parsed configuration: root.first_child tells whether                *)
(* config_load_file found anything, root.items maps each key to its value  *)
(* (NULL when the file has no such item).                                  *)
(***************************************************************************)
Keys == {"mtu", "ipv4mtu", "ipv4_local_subnet", "plat_from_dns64",
         "plat_subnet", "plat_from_dns64_hostname", "ipv6_host_id"}

\* config_str of cutils: the item's value, or the default
config_str(root, item_name, defaultvar) ==
  IF Len(root.items[item_name]) > 0 THEN root.items[item_name] ELSE defaultvar

DEFAULT_IPV4_LOCAL_SUBNET == "192.0.0.4"
DEFAULT_DNS64_DETECTION_HOSTNAME == "ipv4only.arpa"

\* strdup_ok: whether strdup finds memory
config_item_str(root, item_name, defaultvar, strdup_ok) ==
  LET tmp == config_str(root, item_name, defaultvar)
  IN  IF Len(tmp) = 0 THEN NULL
      ELSE IF strdup_ok THEN tmp ELSE NULL

\* config_item_int16_t without its check of *endptr
config_item_int16_t_NoEndCheck(root, item_name, defaultvar, old) ==
  LET tmp == config_str(root, item_name, defaultvar)
      fail == [ok |-> FALSE, val |-> old]
  IN  IF Len(tmp) = 0 THEN fail
      ELSE LET str == Deref(tmp)
               r == strtol(str)
           IN  IF r.errno > 0 THEN fail
               ELSE IF r.endptr = 1 \/ Len(str) = 0 THEN fail
               ELSE IF r.val > INT16_MAX \/ r.val < INT16_MIN THEN fail
               ELSE [ok |-> TRUE, val |-> r.val]

\* [ok, val]: ok is "the returned pointer is not NULL", val is what
\* *ret_val_ptr holds afterwards (old is what it held before)
config_item_int16_t(root, item_name, defaultvar, old) ==
  LET tmp == config_str(root, item_name, defaultvar)
      fail == [ok |-> FALSE, val |-> old]
  IN  IF Len(tmp) = 0 THEN fail
      ELSE LET str == Deref(tmp)
               r == strtol(str)
           IN  IF r.errno > 0 THEN fail
               ELSE IF r.endptr = 1 \/ Len(str) = 0 THEN fail
               ELSE IF r.endptr <= Len(str) THEN fail
               ELSE IF r.val > INT16_MAX \/ r.val < INT16_MIN THEN fail
               ELSE [ok |-> TRUE, val |-> r.val]

config_item_ip(root, item_name, defaultvar, old) ==
  LET tmp == config_str(root, item_name, defaultvar)
  IN  IF Len(tmp) = 0 THEN [ok |-> FALSE, val |-> old]
      ELSE LET r == inet_pton(AF_INET, Deref(tmp))
           IN  IF r.status <= 0 THEN [ok |-> FALSE, val |-> old]
               ELSE [ok |-> TRUE, val |-> r.addr]

\* config_item_ip6 without its check of the item being there
config_item_ip6_NoNullCheck(root, item_name, defaultvar, old) ==
  LET tmp == config_str(root, item_name, defaultvar)
  IN  IF Len(tmp) = 0 THEN [ok |-> TRUE, val |-> old]
      ELSE LET r == inet_pton(AF_INET6, Deref(tmp))
           IN  IF r.status <= 0 THEN [ok |-> FALSE, val |-> old]
               ELSE [ok |-> TRUE, val |-> r.addr]

config_item_ip6(root, item_name, defaultvar, old) ==
  LET tmp == config_str(root, item_name, defaultvar)
  IN  IF Len(tmp) = 0 THEN [ok |-> FALSE, val |-> old]
      ELSE LET r == inet_pton(AF_INET6, Deref(tmp))
           IN  IF r.status <= 0 THEN [ok |-> FALSE, val |-> old]
               ELSE [ok |-> TRUE, val |-> r.addr]

(***************************************************************************)
(* struct clat_config                                                      *)
(***************************************************************************)
NUL == ""

ZeroConfig ==
  [default_pdp_interface |-> [i \in 1 .. IFNAMSIZ |-> NUL],
   mtu |-> 0,
   ipv4mtu |-> 0,
   ipv4_local_subnet |-> Zero4,
   plat_subnet |-> Zero16,
   ipv6_host_id |-> Zero16,
   ipv6_local_subnet |-> Zero16,
   plat_from_dns64_hostname |-> NULL]

\* strncpy(dst, src, n): the first n characters of src, NUL-padded to n;
\* no NUL is written when src has n characters or more
strncpy(src, n) == [i \in 1 .. n |-> IF i <= Len(src) THEN src[i] ELSE NUL]

\* free_config clearing the whole snapshot
free_config_Wipes(cfg) == ZeroConfig

\* free_config releasing nothing
free_config_Keeps(cfg) == cfg

free_config(cfg) ==
  IF Len(cfg.plat_from_dns64_hostname) > 0
    THEN [cfg EXCEPT !.plat_from_dns64_hostname = NULL]
    ELSE cfg

ipv6_prefix_equal(a1, a2) == SubSeq(a1, 1, 8) = SubSeq(a2, 1, 8)

IN6_IS_ADDR_UNSPECIFIED(a) == a = Zero16

\* the back-off timer doubled without its cap
NextBackoff_NoCap(backoff_sleep) == backoff_sleep * 2

\* the back-off timer after one more failure
NextBackoff(backoff_sleep) ==
  IF backoff_sleep * 2 >= BackoffCap THEN BackoffCap ELSE backoff_sleep * 2

\* gen_random_iid writing the adjusted value to s6_addr[10] and s6_addr[11]
gen_random_iid_Bytes10(myaddr, ipv4_local_subnet, plat_subnet, random) ==
  LET a1 == [i \in 1 .. 16 |-> IF i >= 9 THEN random[i - 8] ELSE myaddr[i]]
      middlebytes == a1[12] * 256 + a1[13]
      c1 == ip_checksum_add(0, ipv4_local_subnet)
      c2 == ip_checksum_add(0, plat_subnet) + ip_checksum_add(0, a1)
      delta == ip_checksum_adjust(middlebytes, c1, c2)
  IN  [addr |-> [a1 EXCEPT ![11] = delta \div 256, ![12] = delta % 256],
       calls |-> <<"arc4random_buf", "ip_checksum_adjust">>]

\* random: the 8 bytes arc4random_buf delivers.  The result is the address
\* left in *myaddr and the calls made on the way, in order.
gen_random_iid(myaddr, ipv4_local_subnet, plat_subnet, random) ==
  LET a1 == [i \in 1 .. 16 |-> IF i >= 9 THEN random[i - 8] ELSE myaddr[i]]
      middlebytes == a1[12] * 256 + a1[13]
      c1 == ip_checksum_add(0, ipv4_local_subnet)
      c2 == ip_checksum_add(0, plat_subnet) + ip_checksum_add(0, a1)
      delta == ip_checksum_adjust(middlebytes, c1, c2)
  IN  [addr |-> [a1 EXCEPT ![12] = delta \div 256, ![13] = delta % 256],
       calls |-> <<"arc4random_buf", "ip_checksum_adjust">>]

\* config_generate_local_ipv6_subnet copying s6_addr32[1] as well
config_generate_local_ipv6_subnet_FromWord1(cfg, interface_ip, random) ==
  IF IN6_IS_ADDR_UNSPECIFIED(cfg.ipv6_host_id)
    THEN gen_random_iid(interface_ip, cfg.ipv4_local_subnet, cfg.plat_subnet,
                        random)
    ELSE [addr |-> [i \in 1 .. 16 |->
                      IF i >= 5 THEN cfg.ipv6_host_id[i] ELSE interface_ip[i]],
          calls |-> << >>]

config_generate_local_ipv6_subnet(cfg, interface_ip, random) ==
  IF IN6_IS_ADDR_UNSPECIFIED(cfg.ipv6_host_id)
    THEN gen_random_iid(interface_ip, cfg.ipv4_local_subnet, cfg.plat_subnet,
                        random)
    ELSE [addr |-> [i \in 1 .. 16 |->
                      IF i >= 9 THEN cfg.ipv6_host_id[i] ELSE interface_ip[i]],
          calls |-> << >>]

(***************************************************************************)
(* The inputs the model draws from.                                        *)
(***************************************************************************)
NoItems == [k \in Keys |-> NULL]

Chars(n, c) == [i \in 1 .. n |-> c]

\* a configuration file that could not be read leaves root without a child
Configs ==
  { [first_child |-> FALSE, items |-> NoItems],
    \* only items this program does not read: every default applies
    [first_child |-> TRUE, items |-> NoItems],
    [first_child |-> TRUE,
     items |-> [NoItems EXCEPT !["mtu"] = Ptr(<<"1", "2", "8", "0">>),
                               !["ipv4mtu"] = Ptr(<<"1", "2", "6", "0">>),
                               !["ipv4_local_subnet"] = Ptr("10.255.1.2"),
                               !["plat_from_dns64"] = Ptr("no"),
                               !["plat_subnet"] = Ptr("2001:db8:64::"),
                               !["plat_from_dns64_hostname"] = Ptr("probe.example"),
                               !["ipv6_host_id"] = Ptr("2001:db8::1234:5678")]],
    [first_child |-> TRUE,
     items |-> [NoItems EXCEPT !["plat_from_dns64"] = Ptr("no")]],
    [first_child |-> TRUE,
     items |-> [NoItems EXCEPT !["plat_from_dns64"] = Ptr("no"),
                               !["plat_subnet"] = Ptr("not-an-ip")]],
    [first_child |-> TRUE,
     items |-> [NoItems EXCEPT !["mtu"] = Ptr(<<"a", "b", "c">>)]],
    [first_child |-> TRUE,
     items |-> [NoItems EXCEPT !["mtu"] = Ptr(<<"1", "5", "0", "0">>),
                               !["ipv4mtu"] = Ptr(<<"9", "9", "9", "9", "9">>)]],
    [first_child |-> TRUE,
     items |-> [NoItems EXCEPT !["mtu"] = Ptr(<<"1", "5", "0", "0">>),
                               !["ipv4_local_subnet"] = Ptr("not-an-ip")]],
    [first_child |-> TRUE,
     items |-> [NoItems EXCEPT !["ipv4_local_subnet"] = Ptr("10.255.1.2"),
                               !["plat_from_dns64"] = Ptr("yes"),
                               !["plat_subnet"] = Ptr("2001:db8:64::"),
                               !["plat_from_dns64_hostname"] = Ptr("probe.example"),
                               !["ipv6_host_id"] = Ptr("::")]],
    [first_child |-> TRUE,
     items |-> [NoItems EXCEPT !["mtu"] = Ptr(<<"-", "1">>),
                               !["ipv6_host_id"] = Ptr("not-an-ip")]],
    [first_child |-> TRUE,
     items |-> [NoItems EXCEPT !["plat_from_dns64"] = Ptr("yes"),
                               !["ipv6_host_id"] = Ptr("2001:db8::")]] }

ShortName == <<"w", "l", "a", "n", "0">>
\* the longest name the interface name field holds with its terminator, and
\* names that fill the field or do not fit it
LongNames ==
  { Chars(IFNAMSIZ - 1, "z"), Chars(IFNAMSIZ, "x"), Chars(IFNAMSIZ + 1, "y") }

PlatPrefixArgs == { NULL, Ptr("64:ff9b::"), Ptr("not-an-ip") }

NETID_UNSET == 0

\* the calls: every configuration with every prefix argument, and the long
\* names with the configurations that reach the interface
Args ==
  { [file |-> c, uplink_interface |-> ShortName, plat_prefix |-> p,
     net_id |-> NETID_UNSET] : c \in Configs, p \in PlatPrefixArgs }
  \cup
  { [file |-> c, uplink_interface |-> n, plat_prefix |-> Ptr("64:ff9b::"),
     net_id |-> NETID_UNSET] :
       c \in { d \in Configs : d.first_child /\ d.items = NoItems }, n \in LongNames }

\* the prefixes the resolver may answer with
Dns64Prefixes ==
  { <<0, 100, 255, 155, 0, 0, 0, 0, 0, 0, 0, 0, 0, 0, 0, 0>>,
    <<32, 1, 13, 184, 0, 100, 255, 255, 0, 0, 0, 0, 0, 0, 0, 0>> }

\* the addresses getinterface_ip may find on the interface
InterfaceIps ==
  { <<32, 1, 13, 184, 0, 1, 0, 2, 2, 26, 43, 255, 254, 60, 77, 94>>,
    <<254, 128, 0, 0, 0, 0, 0, 0, 255, 255, 255, 255, 255, 255, 255, 255>> }

\* the 8 bytes arc4random_buf may deliver
RandomIids ==
  { <<0, 0, 0, 0, 0, 0, 0, 0>>,
    <<255, 255, 255, 255, 255, 255, 255, 255>>,
    <<18, 52, 86, 120, 154, 188, 222, 240>>,
    <<1, 0, 0, 255, 0, 128, 7, 1>> }

\* what follows the interface name field in memory when it holds no NUL
OverrunTails == { << >>, <<"?">> }

(***************************************************************************)
(* State.                                                                  *)
(***************************************************************************)
VARIABLES
  Global_Clatd_Config,  \* the process-wide snapshot
  pc,                   \* where read_config stands; "idle" between calls
  args,                 \* the arguments of the current or most recent call
  ret,                  \* what the most recent call returned (NULL: nothing yet)
  backoff_sleep,        \* the local of dns64_detection
  steps,                \* history: the steps of the call, in the order run
  queries,              \* history: plat_prefix calls of the call (capped)
  sleeps,               \* history: the sleeps of the call (the first MaxSleeps)
  resolved,             \* history: the prefix plat_prefix last delivered
  found_ip,             \* history: the address getinterface_ip delivered
  searched,             \* history: the name getinterface_ip was asked about
  random_iid,           \* history: the bytes arc4random_buf delivered
  item,                 \* config_item_int16_t on its own: its inputs and result
  earlier               \* history: what the call before this one returned

vars ==
  <<Global_Clatd_Config, pc, args, ret, backoff_sleep, steps, queries, sleeps,
    resolved, found_ip, searched, random_iid, item, earlier>>

NoArgs ==
  [file |-> [first_child |-> FALSE, items |-> NoItems], uplink_interface |-> << >>,
   plat_prefix |-> NULL, net_id |-> NETID_UNSET]

NoItem ==
  [value |-> NULL, defaultvar |-> NULL, dest |-> 0, old |-> 0, ok |-> FALSE,
   done |-> TRUE]

Init ==
  /\ Global_Clatd_Config = ZeroConfig
  /\ pc = "idle"
  /\ args = NoArgs
  /\ ret = NULL
  /\ backoff_sleep = 0
  /\ steps = << >>
  /\ queries = 0
  /\ sleeps = << >>
  /\ resolved = NULL
  /\ found_ip = NULL
  /\ searched = NULL
  /\ random_iid = NULL
  /\ item = NoItem
  /\ earlier = NULL


(***************************************************************************)
(* read_config.  Every action below is one stretch of the function between *)
(* two points where the environment decides something (memory, the         *)
(* resolver, the interface).                                               *)
(***************************************************************************)
NoHistory ==
  /\ queries' = 0
  /\ sleeps' = << >>
  /\ resolved' = NULL
  /\ found_ip' = NULL
  /\ searched' = NULL
  /\ random_iid' = NULL

\* the label "failed": free(root); free_config(); return 0
Failed(cfg) ==
  /\ Global_Clatd_Config' = free_config(cfg)
  /\ ret' = Ptr(0)
  /\ pc' = "idle"

\* config_node finds no memory: return 0 before anything is touched
ReadConfigNoMemory(a) ==
  /\ pc = "idle"
  /\ args' = a
  /\ ret' = Ptr(0)
  /\ steps' = << >>
  /\ NoHistory
  /\ earlier' = ret
  /\ UNCHANGED <<Global_Clatd_Config, pc, backoff_sleep, item>>

\* ReadConfigEnter without its memset: the call starts from the snapshot
\* the call before left
ReadConfigEnter_NoMemset(a) ==
  /\ pc = "idle"
  /\ args' = a
  /\ NoHistory
  /\ IF ~a.file.first_child
       THEN /\ Failed(Global_Clatd_Config)
            /\ steps' = <<"memset">>
       ELSE /\ Global_Clatd_Config' =
                 [Global_Clatd_Config EXCEPT !.default_pdp_interface =
                    strncpy(a.uplink_interface, IFNAMSIZ)]
            /\ ret' = NULL
            /\ pc' = "mtu"
            /\ steps' = <<"memset", "strncpy">>
  /\ earlier' = ret
  /\ UNCHANGED <<backoff_sleep, item>>

\* memset, config_load_file, strncpy
ReadConfigEnter(a) ==
  /\ pc = "idle"
  /\ args' = a
  /\ NoHistory
  /\ IF ~a.file.first_child
       THEN /\ Failed(ZeroConfig)
            /\ steps' = <<"memset">>
       ELSE /\ Global_Clatd_Config' =
                 [ZeroConfig EXCEPT !.default_pdp_interface =
                    strncpy(a.uplink_interface, IFNAMSIZ)]
            /\ ret' = NULL
            /\ pc' = "mtu"
            /\ steps' = <<"memset", "strncpy">>
  /\ earlier' = ret
  /\ UNCHANGED <<backoff_sleep, item>>

\* ReadMtu going on after a failure
ReadMtu_GoesOn ==
  /\ pc = "mtu"
  /\ LET r == config_item_int16_t(args.file, "mtu", Ptr(<<"-", "1">>),
                                  Global_Clatd_Config.mtu)
     IN  /\ Global_Clatd_Config' = [Global_Clatd_Config EXCEPT !.mtu = r.val]
         /\ pc' = "ipv4mtu"
         /\ ret' = ret
  /\ steps' = Append(steps, "mtu")
  /\ UNCHANGED <<args, backoff_sleep, queries, sleeps, resolved, found_ip,
                 searched, random_iid, item, earlier>>

ReadMtu ==
  /\ pc = "mtu"
  /\ LET r == config_item_int16_t(args.file, "mtu", Ptr(<<"-", "1">>),
                                  Global_Clatd_Config.mtu)
     IN  IF r.ok
           THEN /\ Global_Clatd_Config' = [Global_Clatd_Config EXCEPT !.mtu = r.val]
                /\ pc' = "ipv4mtu"
                /\ ret' = ret
           ELSE Failed(Global_Clatd_Config)
  /\ steps' = Append(steps, "mtu")
  /\ UNCHANGED <<args, backoff_sleep, queries, sleeps, resolved, found_ip,
                 searched, random_iid, item, earlier>>

ReadIpv4Mtu ==
  /\ pc = "ipv4mtu"
  /\ LET r == config_item_int16_t(args.file, "ipv4mtu", Ptr(<<"-", "1">>),
                                  Global_Clatd_Config.ipv4mtu)
     IN  IF r.ok
           THEN /\ Global_Clatd_Config' =
                     [Global_Clatd_Config EXCEPT !.ipv4mtu = r.val]
                /\ pc' = "ipv4_local_subnet"
                /\ ret' = ret
           ELSE Failed(Global_Clatd_Config)
  /\ steps' = Append(steps, "ipv4mtu")
  /\ UNCHANGED <<args, backoff_sleep, queries, sleeps, resolved, found_ip,
                 searched, random_iid, item, earlier>>

ReadIpv4LocalSubnet ==
  /\ pc = "ipv4_local_subnet"
  /\ LET r == config_item_ip(args.file, "ipv4_local_subnet",
                             Ptr(DEFAULT_IPV4_LOCAL_SUBNET),
                             Global_Clatd_Config.ipv4_local_subnet)
     IN  IF r.ok
           THEN /\ Global_Clatd_Config' =
                     [Global_Clatd_Config EXCEPT !.ipv4_local_subnet = r.val]
                /\ pc' = "plat"
                /\ ret' = ret
           ELSE Failed(Global_Clatd_Config)
  /\ steps' = Append(steps, "ipv4_local_subnet")
  /\ UNCHANGED <<args, backoff_sleep, queries, sleeps, resolved, found_ip,
                 searched, random_iid, item, earlier>>

\* PlatFromArgument turning to the plat_subnet item when the argument does
\* not parse
PlatFromArgument_FallsBack ==
  /\ pc = "plat"
  /\ Len(args.plat_prefix) > 0
  /\ LET r == inet_pton(AF_INET6, Deref(args.plat_prefix))
         c == config_item_ip6(args.file, "plat_subnet", NULL,
                              Global_Clatd_Config.plat_subnet)
     IN  IF r.status <= 0 /\ ~c.ok
           THEN Failed(Global_Clatd_Config)
           ELSE /\ Global_Clatd_Config' =
                     [Global_Clatd_Config EXCEPT
                        !.plat_subnet = IF r.status > 0 THEN r.addr ELSE c.val]
                /\ pc' = "subnet_from_interface"
                /\ ret' = ret
  /\ steps' = Append(steps, "plat_prefix_argument")
  /\ UNCHANGED <<args, backoff_sleep, queries, sleeps, resolved, found_ip,
                 searched, random_iid, item, earlier>>

\* if(plat_prefix): the prefix comes from the command line
PlatFromArgument ==
  /\ pc = "plat"
  /\ Len(args.plat_prefix) > 0
  /\ LET r == inet_pton(AF_INET6, Deref(args.plat_prefix))
     IN  IF r.status <= 0
           THEN Failed(Global_Clatd_Config)
           ELSE /\ Global_Clatd_Config' =
                     [Global_Clatd_Config EXCEPT !.plat_subnet = r.addr]
                /\ pc' = "subnet_from_interface"
                /\ ret' = ret
  /\ steps' = Append(steps, "plat_prefix_argument")
  /\ UNCHANGED <<args, backoff_sleep, queries, sleeps, resolved, found_ip,
                 searched, random_iid, item, earlier>>

\* plat_from_dns64 is "no" (or its copy found no memory): plat_subnet is needed
PlatFromConfig(strdup_ok) ==
  /\ pc = "plat"
  /\ Len(args.plat_prefix) = 0
  /\ LET tmp_ptr == config_item_str(args.file, "plat_from_dns64", Ptr("yes"),
                                    strdup_ok)
     IN  IF Len(tmp_ptr) = 0 THEN TRUE ELSE Deref(tmp_ptr) = "no"
  /\ LET r == config_item_ip6(args.file, "plat_subnet", NULL,
                              Global_Clatd_Config.plat_subnet)
     IN  IF r.ok
           THEN /\ Global_Clatd_Config' =
                     [Global_Clatd_Config EXCEPT !.plat_subnet = r.val]
                /\ pc' = "subnet_from_interface"
                /\ ret' = ret
           ELSE Failed(Global_Clatd_Config)
  /\ steps' = Append(steps, "plat_subnet")
  /\ UNCHANGED <<args, backoff_sleep, queries, sleeps, resolved, found_ip,
                 searched, random_iid, item, earlier>>

\* otherwise: the hostname is copied and dns64_detection entered
PlatFromDns64(strdup_ok) ==
  /\ pc = "plat"
  /\ Len(args.plat_prefix) = 0
  /\ LET tmp_ptr == config_item_str(args.file, "plat_from_dns64", Ptr("yes"), TRUE)
     IN  IF Len(tmp_ptr) = 0 THEN FALSE ELSE Deref(tmp_ptr) # "no"
  /\ LET hostname == config_item_str(args.file, "plat_from_dns64_hostname",
                                     Ptr(DEFAULT_DNS64_DETECTION_HOSTNAME),
                                     strdup_ok)
     IN  IF Len(hostname) = 0
           THEN /\ Failed(Global_Clatd_Config)
                /\ UNCHANGED backoff_sleep
           ELSE /\ Global_Clatd_Config' =
                     [Global_Clatd_Config EXCEPT
                        !.plat_from_dns64_hostname = hostname]
                /\ pc' = "dns64_detection"
                /\ backoff_sleep' = 1
                /\ ret' = ret
  /\ steps' = Append(steps, "plat_from_dns64_hostname")
  /\ UNCHANGED <<args, queries, sleeps, resolved, found_ip, searched,
                 random_iid, item, earlier>>

(***************************************************************************)
(* dns64_detection: one turn of its loop is one query of the resolver.     *)
(***************************************************************************)
Count(n) == IF n < MaxSleeps + 1 THEN n + 1 ELSE n

\* plat_prefix delivers a prefix: it is copied and the loop left
Dns64Found(prefix) ==
  /\ pc = "dns64_detection"
  /\ Global_Clatd_Config' = [Global_Clatd_Config EXCEPT !.plat_subnet = prefix]
  /\ pc' = "subnet_from_interface"
  /\ queries' = Count(queries)
  /\ resolved' = Ptr(prefix)
  /\ steps' = Append(steps, "dns64_detection")
  /\ UNCHANGED <<args, ret, backoff_sleep, sleeps, found_ip, searched,
                 random_iid, item, earlier>>

\* Dns64Retry giving up once the timer has reached its cap
Dns64Retry_GivesUp ==
  /\ pc = "dns64_detection"
  /\ queries' = Count(queries)
  /\ sleeps' = IF Len(sleeps) < MaxSleeps THEN Append(sleeps, backoff_sleep)
                                         ELSE sleeps
  /\ backoff_sleep' = NextBackoff(backoff_sleep)
  /\ pc' = IF backoff_sleep = BackoffCap THEN "subnet_from_interface" ELSE pc
  /\ UNCHANGED <<Global_Clatd_Config, args, ret, steps, resolved, found_ip,
                 searched, random_iid, item, earlier>>

\* plat_prefix fails: log, sleep(backoff_sleep), double the timer, go round
Dns64Retry ==
  /\ pc = "dns64_detection"
  /\ queries' = Count(queries)
  /\ sleeps' = IF Len(sleeps) < MaxSleeps THEN Append(sleeps, backoff_sleep)
                                         ELSE sleeps
  /\ backoff_sleep' = NextBackoff(backoff_sleep)
  /\ UNCHANGED <<Global_Clatd_Config, pc, args, ret, steps, resolved, found_ip,
                 searched, random_iid, item, earlier>>

(***************************************************************************)
(* subnet_from_interface(root, Global_Clatd_Config.default_pdp_interface)  *)
(***************************************************************************)
\* the string a char array holds: up to its first NUL; tail is what the
\* memory after the array holds up to the next NUL, read when the array
\* itself has none
CString(array, tail) ==
  IF \E i \in 1 .. Len(array) : array[i] = NUL
    THEN SubSeq(array, 1, (CHOOSE i \in 1 .. Len(array) :
                             /\ array[i] = NUL
                             /\ \A j \in 1 .. i - 1 : array[j] # NUL) - 1)
    ELSE array \o tail

\* ipv6_host_id does not parse
SubnetHostIdInvalid ==
  /\ pc = "subnet_from_interface"
  /\ ~config_item_ip6(args.file, "ipv6_host_id", Ptr("::"),
                      Global_Clatd_Config.ipv6_host_id).ok
  /\ Failed(Global_Clatd_Config)
  /\ steps' = Append(steps, "ipv6_host_id")
  /\ UNCHANGED <<args, backoff_sleep, queries, sleeps, resolved, found_ip,
                 searched, random_iid, item, earlier>>

\* getinterface_ip finds no IPv6 address
SubnetNoInterfaceIp(tail) ==
  /\ pc = "subnet_from_interface"
  /\ LET r == config_item_ip6(args.file, "ipv6_host_id", Ptr("::"),
                              Global_Clatd_Config.ipv6_host_id)
     IN  /\ r.ok
         /\ Failed([Global_Clatd_Config EXCEPT !.ipv6_host_id = r.val])
  /\ searched' = Ptr(CString(Global_Clatd_Config.default_pdp_interface, tail))
  /\ steps' = Append(Append(steps, "ipv6_host_id"), "getinterface_ip")
  /\ UNCHANGED <<args, backoff_sleep, queries, sleeps, resolved, found_ip,
                 random_iid, item, earlier>>

\* getinterface_ip finds interface_ip; the local address is made of it
SubnetFound(tail, interface_ip, random) ==
  /\ pc = "subnet_from_interface"
  /\ LET r == config_item_ip6(args.file, "ipv6_host_id", Ptr("::"),
                              Global_Clatd_Config.ipv6_host_id)
         cfg == [Global_Clatd_Config EXCEPT !.ipv6_host_id = r.val,
                                            !.ipv6_local_subnet = interface_ip]
         g == config_generate_local_ipv6_subnet(cfg, cfg.ipv6_local_subnet, random)
         drawn == \E i \in 1 .. Len(g.calls) : g.calls[i] = "arc4random_buf"
     IN  /\ r.ok
         /\ Global_Clatd_Config' = [cfg EXCEPT !.ipv6_local_subnet = g.addr]
         /\ random_iid' = IF drawn THEN Ptr(random) ELSE NULL
         /\ steps' = steps \o <<"ipv6_host_id", "getinterface_ip">> \o g.calls
                           \o <<"local_ipv6_subnet">>
  /\ searched' = Ptr(CString(Global_Clatd_Config.default_pdp_interface, tail))
  /\ found_ip' = Ptr(interface_ip)
  /\ ret' = Ptr(1)
  /\ pc' = "idle"
  /\ UNCHANGED <<args, backoff_sleep, queries, sleeps, resolved, item, earlier>>

(***************************************************************************)
(* config_item_int16_t on its own, on every text of the alphabet up to     *)
(* MaxLen characters and on the texts at the edges of the ranges.          *)
(***************************************************************************)
Alphabet == {" ", "-", "+", "1", "9", "x"}

RECURSIVE Texts(_)
Texts(n) ==
  IF n = 0 THEN { << >> }
  ELSE Texts(n - 1) \cup
       { Append(t, c) : t \in { u \in Texts(n - 1) : Len(u) = n - 1 }, c \in Alphabet }

EdgeTexts ==
  { <<"4", "2">>, <<"a", "b", "c">>, <<"9", "9", "9", "9", "9">>,
    <<"3", "2", "7", "6", "7">>, <<"3", "2", "7", "6", "8">>,
    <<"-", "3", "2", "7", "6", "8">>, <<"-", "3", "2", "7", "6", "9">>,
    <<"0", "0", "0", "0", "0", "0", "7">>, <<"+", "3", "2", "7", "6", "8">>,
    <<"2", "1", "4", "7", "4", "8", "3", "6", "4", "7">>,
    <<"2", "1", "4", "7", "4", "8", "3", "6", "4", "8">>,
    <<"-", "2", "1", "4", "7", "4", "8", "3", "6", "4", "8">>,
    <<"-", "2", "1", "4", "7", "4", "8", "3", "6", "4", "9">>,
    <<"9", "9", "9", "9", "9", "9", "9", "9", "9", "9", "9", "9">>,
    <<"1", "2", "8", "0", "x">>, <<"\t", "1", "2">>, <<"1", "2", "\n">> }

ItemInputs ==
  [value : {NULL} \cup { Ptr(t) : t \in Texts(MaxLen) \cup EdgeTexts },
   defaultvar : {NULL, Ptr(<<"-", "1">>)},
   dest : {0, 7}, old : {0}, ok : {FALSE}, done : {FALSE}]

InitItem ==
  /\ Init!1 /\ Init!2 /\ Init!3 /\ Init!4 /\ Init!5 /\ Init!6 /\ Init!7
  /\ Init!8 /\ Init!9 /\ Init!10 /\ Init!11 /\ Init!12 /\ Init!14
  /\ item \in { [i EXCEPT !.old = i.dest] : i \in ItemInputs }

\* config_item_int16_t(root, "mtu", defaultvar, &dest)
ConfigItemInt16 ==
  /\ ~item.done
  /\ LET root == [first_child |-> TRUE,
                  items |-> [NoItems EXCEPT !["mtu"] = item.value]]
         r == config_item_int16_t(root, "mtu", item.defaultvar, item.dest)
     IN  item' = [item EXCEPT !.ok = r.ok, !.dest = r.val, !.done = TRUE]
  /\ UNCHANGED <<Global_Clatd_Config, pc, args, ret, backoff_sleep, steps,
                 queries, sleeps, resolved, found_ip, searched, random_iid,
                 earlier>>

NextItem == ConfigItemInt16

SpecItem == InitItem /\ [][NextItem]_vars

Next ==
  \/ \E a \in Args : ReadConfigNoMemory(a)
  \/ \E a \in Args : ReadConfigEnter(a)
  \/ ReadMtu
  \/ ReadIpv4Mtu
  \/ ReadIpv4LocalSubnet
  \/ PlatFromArgument
  \/ \E strdup_ok \in BOOLEAN : PlatFromConfig(strdup_ok)
  \/ \E strdup_ok \in BOOLEAN : PlatFromDns64(strdup_ok)
  \/ \E prefix \in Dns64Prefixes : Dns64Found(prefix)
  \/ Dns64Retry
  \/ SubnetHostIdInvalid
  \/ \E tail \in OverrunTails : SubnetNoInterfaceIp(tail)
  \/ \E tail \in OverrunTails, interface_ip \in InterfaceIps, random \in RandomIids :
       SubnetFound(tail, interface_ip, random)

Spec == Init /\ [][Next]_vars

\* the resolver answers in the end: a query that delivers a prefix is not
\* put off for ever
FairSpec == Spec /\ WF_vars(\E prefix \in Dns64Prefixes : Dns64Found(prefix))

(***************************************************************************)
(* Properties.                                                             *)
(***************************************************************************)
Ran(step) == \E i \in 1 .. Len(steps) : steps[i] = step

\* read_config has returned (and was not entered again)
Returned == pc = "idle" /\ ret # NULL

\* the call went past config_node
Entered == Len(steps) > 0

\* the sleeps the specification lists, as a function of their position
ListedSleep(k) == IF k <= 7 THEN <<1, 2, 4, 8, 16, 32, 64>>[k] ELSE 120

\* C1: while the resolver keeps failing, the k-th sleep of dns64_detection
\* lasts 1, 2, 4, 8, 16, 32, 64, 120, 120, ... seconds: the first is 1, none
\* is shorter than the one before, none exceeds 120, and the timer in hand
\* is the one the next failure will sleep on (the value before doubling).
C1_BackoffSequence ==
  /\ \A k \in 1 .. Len(sleeps) : sleeps[k] = ListedSleep(k)
  /\ \A k \in 1 .. Len(sleeps) : sleeps[k] >= 1 /\ sleeps[k] <= 120
  /\ \A k \in 2 .. Len(sleeps) : sleeps[k - 1] <= sleeps[k]
  /\ (pc = "dns64_detection" /\ Len(sleeps) < MaxSleeps)
        => backoff_sleep = ListedSleep(Len(sleeps) + 1)

C1_Witness ==
  /\ pc = "dns64_detection"
  /\ Len(sleeps) >= 9
  /\ sleeps[7] = 64 /\ sleeps[8] = 120 /\ sleeps[9] = 120

\* the sum of an address as 16-bit words, as a ones'-complement number
Checksum(a) == ip_checksum_add(0, a) % 65535

StaticWithoutPlatSubnet ==
  /\ Len(args.plat_prefix) = 0
  /\ args.file.first_child
  /\ args.file.items["plat_from_dns64"] = Ptr("no")
  /\ args.file.items["plat_subnet"] = NULL

\* C3: without prefix argument, with plat_from_dns64 = no and no plat_subnet
\* item, read_config returns 0 and plat_prefix is not queried in that call.
C3_StaticNeedsPlatSubnet ==
  StaticWithoutPlatSubnet =>
    /\ queries = 0
    /\ resolved = NULL
    /\ ~Ran("dns64_detection")
    /\ Returned => ret = Ptr(0)

C3_Witness ==
  /\ StaticWithoutPlatSubnet
  /\ Returned
  /\ ret = Ptr(0)
  /\ steps = <<"memset", "strncpy", "mtu", "ipv4mtu", "ipv4_local_subnet",
               "plat_subnet">>

\* what the items of the call's configuration hold, read as the steps do
MtuItem == config_item_int16_t(args.file, "mtu", Ptr(<<"-", "1">>), 0)
Ipv4MtuItem == config_item_int16_t(args.file, "ipv4mtu", Ptr(<<"-", "1">>), 0)
Ipv4LocalSubnetItem ==
  config_item_ip(args.file, "ipv4_local_subnet", Ptr(DEFAULT_IPV4_LOCAL_SUBNET), Zero4)
HostIdItem == config_item_ip6(args.file, "ipv6_host_id", Ptr("::"), Zero16)

FailedReturn == Returned /\ ret = Ptr(0) /\ Entered

\* the step ran and another step ran after it: it did not fail
Passed(step) == \E i \in 1 .. Len(steps) - 1 : steps[i] = step

LastStep == steps[Len(steps)]

\* C4, as the specification states it: after a failed call the snapshot
\* shows nothing of what the steps before the failing one wrote.
C4_NoPartialSnapshot ==
  FailedReturn =>
    /\ Global_Clatd_Config.default_pdp_interface = ZeroConfig.default_pdp_interface
    /\ Global_Clatd_Config.mtu = 0
    /\ Global_Clatd_Config.ipv4mtu = 0
    /\ Global_Clatd_Config.ipv4_local_subnet = Zero4
    /\ Global_Clatd_Config.plat_subnet = Zero16
    /\ Global_Clatd_Config.ipv6_host_id = Zero16
    /\ Global_Clatd_Config.ipv6_local_subnet = Zero16

\* C4, amended: a failed call returns 0 and releases the discovery hostname,
\* and that is all it undoes: each field a step wrote before the failing
\* step still holds the value written (a step is known to have succeeded
\* when the step after it ran), and the fields of the steps not reached are
\* zero.
C4_FailureKeepsWrittenFields ==
  FailedReturn =>
    LET g == Global_Clatd_Config
    IN  /\ g.plat_from_dns64_hostname = NULL
        /\ g.default_pdp_interface =
             IF Ran("strncpy") THEN strncpy(args.uplink_interface, IFNAMSIZ)
             ELSE ZeroConfig.default_pdp_interface
        /\ g.mtu = IF Passed("mtu") THEN MtuItem.val ELSE 0
        /\ g.ipv4mtu = IF Passed("ipv4mtu") THEN Ipv4MtuItem.val ELSE 0
        /\ g.ipv4_local_subnet =
             IF Passed("ipv4_local_subnet") THEN Ipv4LocalSubnetItem.val ELSE Zero4
        /\ g.plat_subnet =
             IF ~Ran("ipv6_host_id") THEN Zero16
             ELSE IF Ran("plat_prefix_argument")
                    THEN inet_pton(AF_INET6, Deref(args.plat_prefix)).addr
             ELSE IF Ran("plat_subnet")
                    THEN inet_pton(AF_INET6, Deref(args.file.items["plat_subnet"])).addr
             ELSE Deref(resolved)
        /\ g.ipv6_host_id = IF Ran("getinterface_ip") THEN HostIdItem.val ELSE Zero16
        /\ g.ipv6_local_subnet = Zero16

\* a failure after four fields were written, all four still to be seen
C4_Witness ==
  /\ FailedReturn
  /\ LastStep = "getinterface_ip"
  /\ Global_Clatd_Config.mtu = 1280
  /\ Global_Clatd_Config.ipv4_local_subnet = <<10, 255, 1, 2>>
  /\ Global_Clatd_Config.plat_subnet # Zero16
  /\ Global_Clatd_Config.ipv6_host_id # Zero16

\* C6: with an ipv6_host_id other than ::, the local address is the
\* interface's bytes 0..7 followed by the host id's bytes 8..15, and neither
\* arc4random_buf nor ip_checksum_adjust is called.
C6_HostIdCopied ==
  (Returned /\ ret = Ptr(1) /\ Global_Clatd_Config.ipv6_host_id # Zero16) =>
     /\ \A i \in 9 .. 16 :
          Global_Clatd_Config.ipv6_local_subnet[i] = HostIdItem.val[i]
     /\ \A i \in 1 .. 8 :
          Global_Clatd_Config.ipv6_local_subnet[i] = Deref(found_ip)[i]
     /\ random_iid = NULL
     /\ ~Ran("arc4random_buf")
     /\ ~Ran("ip_checksum_adjust")

\* the host id 2001:db8::1234:5678 on an interface address with other low bits
C6_Witness ==
  /\ Returned /\ ret = Ptr(1)
  /\ Global_Clatd_Config.ipv6_host_id =
       <<32, 1, 13, 184, 0, 0, 0, 0, 0, 0, 0, 0, 18, 52, 86, 120>>
  /\ Global_Clatd_Config.ipv6_local_subnet =
       <<254, 128, 0, 0, 0, 0, 0, 0, 0, 0, 0, 0, 18, 52, 86, 120>>

HasPrefixArgument == Len(args.plat_prefix) > 0 /\ Entered

\* C7: with a prefix argument the PLAT prefix comes from it alone: once the
\* argument is parsed plat_subnet is the parsed argument, whatever the
\* configuration holds; plat_prefix is not queried and the hostname stays
\* absent; an argument that does not parse makes read_config fail at once,
\* neither plat_subnet nor the discovery being tried.
C7_PrefixArgumentOnly ==
  HasPrefixArgument =>
    LET r == inet_pton(AF_INET6, Deref(args.plat_prefix))
    IN  /\ queries = 0
        /\ resolved = NULL
        /\ Global_Clatd_Config.plat_from_dns64_hostname = NULL
        /\ ~Ran("plat_subnet")
        /\ ~Ran("plat_from_dns64_hostname")
        /\ ~Ran("dns64_detection")
        /\ (Ran("plat_prefix_argument") /\ r.status > 0)
              => Global_Clatd_Config.plat_subnet = r.addr
        /\ (Ran("plat_prefix_argument") /\ r.status <= 0)
              => /\ FailedReturn
                 /\ LastStep = "plat_prefix_argument"
                 /\ Global_Clatd_Config.plat_subnet = Zero16

\* the argument wins over plat_from_dns64 = no with a plat_subnet item
C7_Witness ==
  /\ HasPrefixArgument
  /\ Returned /\ ret = Ptr(1)
  /\ args.file.items["plat_subnet"] = Ptr("2001:db8:64::")
  /\ args.file.items["plat_from_dns64_hostname"] = Ptr("probe.example")
  /\ Global_Clatd_Config.plat_subnet =
       <<0, 100, 255, 155, 0, 0, 0, 0, 0, 0, 0, 0, 0, 0, 0, 0>>

\* the place of a step in the order the specification lists (0: a step it
\* does not list)
Stage(step) ==
  CASE step = "memset" -> 1
    [] step = "strncpy" -> 2
    [] step = "mtu" -> 3
    [] step = "ipv4mtu" -> 4
    [] step = "ipv4_local_subnet" -> 5
    [] step \in {"plat_prefix_argument", "plat_subnet",
                 "plat_from_dns64_hostname", "dns64_detection"} -> 6
    [] step = "getinterface_ip" -> 7
    [] step \in {"arc4random_buf", "ip_checksum_adjust", "local_ipv6_subnet"} -> 8
    [] OTHER -> 0

Listed(step) == Stage(step) > 0

\* the PLAT resolution of the call cannot succeed, whatever the resolver does
PlatMustFail ==
  /\ args.file.first_child
  /\ IF Len(args.plat_prefix) > 0
       THEN inet_pton(AF_INET6, Deref(args.plat_prefix)).status <= 0
       ELSE /\ args.file.items["plat_from_dns64"] = Ptr("no")
            /\ ~config_item_ip6(args.file, "plat_subnet", NULL, Zero16).ok

\* C9: the steps of read_config run in the listed order, each at most once
\* and none skipped; a step that fails is the last one of the call, which
\* returns 0; an invalid mtu, ipv4mtu or ipv4_local_subnet keeps plat_prefix
\* from being queried, and a failed PLAT resolution keeps getinterface_ip
\* from being called.
C9_StepsInOrder ==
  LET listed == SelectSeq(steps, Listed)
  IN  /\ Len(listed) > 0 => Stage(listed[1]) = 1
      /\ \A i \in 1 .. Len(listed) - 1 :
           \/ Stage(listed[i + 1]) = Stage(listed[i]) + 1
           \/ /\ Stage(listed[i + 1]) = Stage(listed[i])
              /\ \/ listed[i] = "plat_from_dns64_hostname" /\ listed[i + 1] = "dns64_detection"
                 \/ listed[i] = "arc4random_buf" /\ listed[i + 1] = "ip_checksum_adjust"
                 \/ listed[i] = "ip_checksum_adjust" /\ listed[i + 1] = "local_ipv6_subnet"
      /\ Passed("mtu") => MtuItem.ok
      /\ Passed("ipv4mtu") => Ipv4MtuItem.ok
      /\ Passed("ipv4_local_subnet") => Ipv4LocalSubnetItem.ok
      /\ Passed("ipv6_host_id") => HostIdItem.ok
      /\ (Passed("plat_prefix_argument") \/ Passed("plat_subnet")) => ~PlatMustFail
      /\ (Entered /\ pc = "idle") => ret # NULL
      /\ (Returned /\ Entered /\ LastStep # "local_ipv6_subnet") => ret = Ptr(0)
      /\ (Entered /\ args.file.first_child
            /\ ~(MtuItem.ok /\ Ipv4MtuItem.ok /\ Ipv4LocalSubnetItem.ok))
           => /\ queries = 0 /\ resolved = NULL
              /\ ~Ran("plat_from_dns64_hostname") /\ ~Ran("dns64_detection")
              /\ Global_Clatd_Config.plat_subnet = Zero16
      /\ (Entered /\ PlatMustFail)
           => /\ searched = NULL /\ found_ip = NULL
              /\ ~Ran("ipv6_host_id") /\ ~Ran("getinterface_ip")

\* an invalid ipv4mtu in a configuration that would go on to discovery
C9_Witness ==
  /\ FailedReturn
  /\ steps = <<"memset", "strncpy", "mtu", "ipv4mtu">>
  /\ Len(args.plat_prefix) = 0
  /\ args.file.items["plat_from_dns64"] = NULL
  /\ queries = 0

\* C10, as the specification states it: at every return of read_config the
\* hostname is present exactly when the call succeeded and the prefix came
\* from the DNS64 discovery.
C10_HostnameAtEveryReturn ==
  Returned =>
    (Len(Global_Clatd_Config.plat_from_dns64_hostname) > 0
       <=> (ret = Ptr(1) /\ Ran("dns64_detection")))

\* C10, amended: at every return of read_config but the one taken when
\* config_node finds no memory (which leaves the snapshot of the call
\* before as it was), the hostname is present exactly when the call
\* succeeded and the prefix came from the DNS64 discovery; it is absent
\* after a success by prefix argument or by plat_subnet and after every
\* failure, also one that follows a successful discovery.
C10_HostnameAtReturn ==
  (Returned /\ Entered) =>
    /\ Len(Global_Clatd_Config.plat_from_dns64_hostname) > 0
         <=> (ret = Ptr(1) /\ Ran("dns64_detection"))
    /\ (ret = Ptr(1) /\ (Ran("plat_prefix_argument") \/ Ran("plat_subnet")))
         => Global_Clatd_Config.plat_from_dns64_hostname = NULL
    /\ ret = Ptr(0) => Global_Clatd_Config.plat_from_dns64_hostname = NULL
    /\ (ret = Ptr(1) /\ Ran("dns64_detection"))
         => Global_Clatd_Config.plat_from_dns64_hostname =
              config_str(args.file, "plat_from_dns64_hostname",
                         Ptr(DEFAULT_DNS64_DETECTION_HOSTNAME))

\* a failure after the discovery had succeeded
C10_Witness ==
  /\ FailedReturn
  /\ Ran("dns64_detection")
  /\ Len(resolved) > 0
  /\ Global_Clatd_Config.plat_subnet = Deref(resolved)
  /\ Global_Clatd_Config.plat_from_dns64_hostname = NULL

InLoop == pc = "dns64_detection"

\* what holds of dns64_detection in every state
C5_LoopSafety ==
  /\ InLoop =>
       /\ resolved = NULL
       /\ Global_Clatd_Config.plat_subnet = Zero16
       /\ ~Ran("dns64_detection")
       /\ queries <= MaxSleeps => Len(sleeps) = queries
       /\ ENABLED Dns64Retry
  /\ (queries > 0 /\ ~InLoop) =>
       /\ Ran("dns64_detection")
       /\ Len(resolved) > 0
       /\ Deref(resolved) \in Dns64Prefixes
       /\ queries <= MaxSleeps => Len(sleeps) = queries - 1
       /\ pc = "subnet_from_interface"
            => Global_Clatd_Config.plat_subnet = Deref(resolved)
  /\ Ran("dns64_detection") => queries > 0

RECURSIVE DropSpace(_)
DropSpace(t) == IF Len(t) > 0 /\ IsSpace(t[1]) THEN DropSpace(Tail(t)) ELSE t

Unsigned(t) == IF Len(t) > 0 /\ t[1] \in {"+", "-"} THEN Tail(t) ELSE t

\* an optional sign and one digit or more, nothing else
IsInteger(t) ==
  /\ Len(Unsigned(t)) > 0
  /\ \A i \in 1 .. Len(Unsigned(t)) : IsDigit(Unsigned(t)[i])

\* the magnitude of a digit string; 100000 stands for all that is larger
RECURSIVE Magnitude(_)
Magnitude(d) ==
  IF Len(d) = 0 THEN 0
  ELSE LET m == Magnitude(SubSeq(d, 1, Len(d) - 1)) * 10 + DigitVal(d[Len(d)])
       IN  IF m > 100000 THEN 100000 ELSE m

IntegerValue(t) ==
  IF Len(t) > 0 /\ t[1] = "-" THEN -Magnitude(Unsigned(t)) ELSE Magnitude(Unsigned(t))

IsInt16(t) ==
  IsInteger(t) /\ IntegerValue(t) >= -32768 /\ IntegerValue(t) <= 32767

\* the string config_item_int16_t parses: the item's value, or the default
ResolvedText == IF Len(item.value) > 0 THEN item.value ELSE item.defaultvar

\* C8, as the specification states it: success exactly when the resolved
\* string is an integer in base 10 (an optional sign and digits, nothing
\* after them) between -32768 and 32767, the value being stored; the
\* destination untouched on every failure.
C8_Int16Exactly ==
  item.done =>
    /\ item.ok <=> (Len(ResolvedText) > 0 /\ IsInt16(Deref(ResolvedText)))
    /\ item.ok => item.dest = IntegerValue(Deref(ResolvedText))
    /\ ~item.ok => item.dest = item.old

\* C8, amended: success exactly when the resolved string is, after optional
\* leading white space, an integer in base 10 (an optional sign and digits,
\* nothing after them) between -32768 and 32767, the value being stored;
\* failure for the empty string, for a string without digits, for a string
\* with anything after the digits and for a value out of the range; an
\* absent key with the default "-1" gives -1; the destination untouched on
\* every failure.
C8_Int16AfterWhiteSpace ==
  item.done =>
    /\ item.ok <=>
         (Len(ResolvedText) > 0 /\ IsInt16(DropSpace(Deref(ResolvedText))))
    /\ item.ok => item.dest = IntegerValue(DropSpace(Deref(ResolvedText)))
    /\ ~item.ok => item.dest = item.old
    /\ (item.value = NULL /\ item.defaultvar = Ptr(<<"-", "1">>))
         => item.ok /\ item.dest = -1
    /\ ResolvedText \in {NULL, Ptr(<< >>), Ptr(<<"a", "b", "c">>),
                         Ptr(<<"1", "2", "8", "0", "x">>), Ptr(<<"1", "2", "\n">>),
                         Ptr(<<"3", "2", "7", "6", "8">>),
                         Ptr(<<"-", "3", "2", "7", "6", "9">>),
                         Ptr(<<"9", "9", "9", "9", "9">>)}
         => ~item.ok
    /\ ResolvedText = Ptr(<<"3", "2", "7", "6", "7">>) => item.ok /\ item.dest = 32767
    /\ ResolvedText = Ptr(<<"-", "3", "2", "7", "6", "8">>)
         => item.ok /\ item.dest = -32768

\* the largest value stored over a destination that held something else
C8_Witness ==
  /\ item.done /\ item.ok
  /\ item.value = Ptr(<<"3", "2", "7", "6", "7">>)
  /\ item.old = 7
  /\ item.dest = 32767

(***************************************************************************)
(* The snapshot after a sequence of calls.                                 *)
(***************************************************************************)
\* the PLAT prefix the call's inputs give: the parsed argument, the parsed
\* plat_subnet item, or what the resolver delivered in this call
PlatSubnetOfCall ==
  IF Ran("plat_prefix_argument")
    THEN LET r == inet_pton(AF_INET6, Deref(args.plat_prefix))
         IN  IF r.status > 0 THEN r.addr ELSE Zero16
  ELSE IF Ran("plat_subnet")
    THEN config_item_ip6(args.file, "plat_subnet", NULL, Zero16).val
  ELSE IF Ran("dns64_detection") THEN Deref(resolved)
  ELSE Zero16

\* the snapshot made of nothing but the inputs of the most recent call (its
\* arguments and what the resolver, the interface and arc4random_buf
\* delivered in it): each field the value the call's step gives it, and
\* zero where the call did not get to the step
SnapshotOfCall ==
  LET upto ==
        [default_pdp_interface |->
           IF Ran("strncpy") THEN strncpy(args.uplink_interface, IFNAMSIZ)
           ELSE ZeroConfig.default_pdp_interface,
         mtu |-> IF Ran("mtu") THEN MtuItem.val ELSE 0,
         ipv4mtu |-> IF Ran("ipv4mtu") THEN Ipv4MtuItem.val ELSE 0,
         ipv4_local_subnet |->
           IF Ran("ipv4_local_subnet") THEN Ipv4LocalSubnetItem.val ELSE Zero4,
         plat_subnet |-> PlatSubnetOfCall,
         ipv6_host_id |-> IF Ran("ipv6_host_id") THEN HostIdItem.val ELSE Zero16,
         ipv6_local_subnet |-> Zero16,
         plat_from_dns64_hostname |->
           IF ret = Ptr(1) /\ Ran("dns64_detection")
             THEN config_str(args.file, "plat_from_dns64_hostname",
                             Ptr(DEFAULT_DNS64_DETECTION_HOSTNAME))
             ELSE NULL]
      random == IF Len(random_iid) > 0 THEN Deref(random_iid)
                ELSE <<0, 0, 0, 0, 0, 0, 0, 0>>
  IN  IF Ran("local_ipv6_subnet")
        THEN [upto EXCEPT !.ipv6_local_subnet =
                config_generate_local_ipv6_subnet(upto, Deref(found_ip), random).addr]
        ELSE upto

\* C11, as the specification states it: after every call of read_config,
\* whatever calls went before, the snapshot is the one the inputs of that
\* call alone give; nothing an earlier call wrote is left in it.  (For a
\* call that writes nothing, that is the snapshot nothing was written to.)
C11_LastCallOnly == Returned => Global_Clatd_Config = SnapshotOfCall

\* a call that returned because config_node found no memory
NoMemoryReturn == Returned /\ ~Entered

\* C11, amended: after every call of read_config that gets past config_node,
\* whatever calls went before and whether they succeeded or failed, the
\* snapshot is the one the inputs of that call alone give; a call that
\* returns because config_node found no memory returns 0 and leaves the
\* snapshot as the call before left it.
C11_LastEnteredCallOnly ==
  /\ [](Returned /\ Entered => Global_Clatd_Config = SnapshotOfCall)
  /\ [](NoMemoryReturn => ret = Ptr(0))
  /\ [][NoMemoryReturn' => Global_Clatd_Config' = Global_Clatd_Config]_vars

\* a call that could not load its configuration, after a call that
\* succeeded: nothing of the earlier snapshot is left
C11_Witness ==
  /\ earlier = Ptr(1)
  /\ Returned /\ ret = Ptr(0)
  /\ steps = <<"memset">>
  /\ Global_Clatd_Config = ZeroConfig

(***************************************************************************)
(* The interface name.                                                     *)
(***************************************************************************)
\* the char array holds a NUL
Terminated(array) == \E i \in 1 .. Len(array) : array[i] = NUL

\* the name, cut to what the field holds besides its terminator
Truncated(name) ==
  IF Len(name) <= IFNAMSIZ - 1 THEN name ELSE SubSeq(name, 1, IFNAMSIZ - 1)

\* C12: whatever the length of the interface name given to read_config, the
\* default_pdp_interface field holds a terminated string once the name is
\* copied, that string is the name (cut to IFNAMSIZ - 1 characters when it
\* is longer), and it is the name getinterface_ip is asked about.
C12_NameTerminated ==
  /\ Ran("strncpy") =>
       /\ Terminated(Global_Clatd_Config.default_pdp_interface)
       /\ CString(Global_Clatd_Config.default_pdp_interface, << >>)
            = Truncated(args.uplink_interface)
  /\ Len(searched) > 0 => Deref(searched) = Truncated(args.uplink_interface)

(***************************************************************************)
(* What gen_random_iid writes.                                             *)
(***************************************************************************)
\* the call succeeded with an identifier drawn by arc4random_buf
RandomIidMade == Returned /\ ret = Ptr(1) /\ Len(random_iid) > 0

\* subnet_from_interface is about to make the address with a random
\* identifier: ipv6_host_id is ::
RandomIidAhead == pc = "subnet_from_interface" /\ HostIdItem.ok /\ HostIdItem.val = Zero16

\* C13: with ipv6_host_id unspecified, gen_random_iid changes bytes 8..15
\* of the interface address and nothing else: bytes 0..7 of the local
\* address are those getinterface_ip delivered; bytes 8, 9, 10, 13, 14 and
\* 15 are the bytes arc4random_buf delivered, the adjustment having written
\* bytes 11 and 12 only; and ipv4_local_subnet and plat_subnet are what
\* they were before the address was made.
C13_OnlyLowBytesChange ==
  /\ [](RandomIidMade =>
         LET g == Global_Clatd_Config
         IN  /\ \A i \in 1 .. 8 : g.ipv6_local_subnet[i] = Deref(found_ip)[i]
             /\ \A i \in {9, 10, 11, 14, 15, 16} :
                  g.ipv6_local_subnet[i] = Deref(random_iid)[i - 8]
             /\ Ran("arc4random_buf") /\ Ran("ip_checksum_adjust")
             /\ g.ipv4_local_subnet = Ipv4LocalSubnetItem.val
             /\ g.plat_subnet = PlatSubnetOfCall
             /\ g.ipv6_host_id = Zero16)
  /\ [][RandomIidAhead =>
          /\ Global_Clatd_Config'.ipv4_local_subnet
               = Global_Clatd_Config.ipv4_local_subnet
          /\ Global_Clatd_Config'.plat_subnet = Global_Clatd_Config.plat_subnet
          /\ Global_Clatd_Config'.ipv6_host_id = Global_Clatd_Config.ipv6_host_id
          /\ Global_Clatd_Config'.mtu = Global_Clatd_Config.mtu
          /\ Global_Clatd_Config'.ipv4mtu = Global_Clatd_Config.ipv4mtu
          /\ Global_Clatd_Config'.default_pdp_interface
               = Global_Clatd_Config.default_pdp_interface]_vars

\* an address made of the interface's prefix and drawn bytes, of which the
\* adjustment changed bytes 11 and 12
C13_Witness ==
  /\ RandomIidMade
  /\ found_ip = Ptr(<<32, 1, 13, 184, 0, 1, 0, 2, 2, 26, 43, 255, 254, 60, 77, 94>>)
  /\ random_iid = Ptr(<<18, 52, 86, 120, 154, 188, 222, 240>>)
  /\ SubSeq(Global_Clatd_Config.ipv6_local_subnet, 1, 11)
       = <<32, 1, 13, 184, 0, 1, 0, 2, 18, 52, 86>>
  /\ SubSeq(Global_Clatd_Config.ipv6_local_subnet, 14, 16) = <<188, 222, 240>>
  /\ Global_Clatd_Config.ipv6_local_subnet[12] # 120
  /\ Global_Clatd_Config.ipv6_local_subnet[13] # 154

=============================================================================
